---- MODULE Spec2Model ----
(***************************************************************************)
(* Capture-and-Review client (src/frontend/vite.config.js, function App).  *)
(*                                                                         *)
(* The React component is modelled as a state machine over its useState    *)
(* cells.  Every event-loop task of the component is one action: a click   *)
(* handler, the canvas.toBlob callback, the continuation of an async       *)
(* function after its awaited fetch, a setTimeout callback, the settling   *)
(* of getUserMedia.  The useEffect of lines 34-38 runs after the render    *)
(* that follows a task, so it is part of the action of that task.          *)
(*                                                                         *)
(* Ghost state (not program state): last, alert, previewModel and the      *)
(* image field of previewData record what a step did so that the claims    *)
(* can be stated.                                                          *)
(***************************************************************************)
EXTENDS Naturals, FiniteSets, Bags, TLC

\* ------------------------------------------------------------------ bounds
MaxBlob    == 2   \* distinct image payloads (frames or files)
MaxPending == 2   \* outstanding fetches; also pending toBlob callbacks
MaxCam     == 1   \* pending getUserMedia requests; also pending timers
MaxRecords == 1   \* records the backend returns from /logs
MaxOps     == 4   \* operator inputs (clicks, selections) in one run

\* --------------------------------------------------------------- constants
Models  == {"688-1", "688-2", "688-3"}
Blobs   == 1..MaxBlob
NoBlob  == 0
NoModel == "none"
NoData  == [image |-> NoBlob, status |-> "null"]
Verdicts == {"pass", "fail"}
ErrBody == MaxRecords + 1
NoAlert == "none"

VARIABLES
  loading, previewData, capturedBlob, showHistory, logs, selectedModel,
  net,            \* bag of fetches awaiting their response
  toBlobQ,        \* bag of canvas.toBlob callbacks not yet invoked
  timers,         \* setTimeout(initializeCamera, 100) callbacks not yet run
  gum,            \* getUserMedia promises not yet settled
  stream,         \* the mounted <video> has a srcObject
  apiSupported,   \* navigator.mediaDevices.getUserMedia exists
  previewModel,   \* ghost: model sent in the preview call of capturedBlob
  alert,          \* ghost: the alert() shown by the last step
  ops,            \* ghost: operator inputs so far
  last            \* ghost: the task the last step ran

vars == <<loading, previewData, capturedBlob, showHistory, logs, selectedModel,
          net, toBlobQ, timers, gum, stream, apiSupported, previewModel,
          alert, ops, last>>

Req(kind, blob, model) == [kind |-> kind, blob |-> blob, model |-> model]
One(x) == SetToBag({x})

\* ------------------------------------------------------------- rendering
\* logs.map on a non-array body throws during render: the tree is unmounted.
Crashed == showHistory /\ logs = ErrBody

\* The loading overlay is drawn over the page; its stylesheet is not part of
\* the sources, the specification says it disables triggering actions.
InputBlocked == loading

\* An operator input: counted, and accepted only where the overlay is absent.
OperatorInput ==
  /\ ~InputBlocked
  /\ ops < MaxOps
  /\ ops' = ops + 1

ScannerControls == ~showHistory /\ previewData = NoData
ReviewControls  == ~showHistory /\ previewData # NoData
VideoMounted(sh, pd, lg) == ~sh /\ pd = NoData /\ ~(sh /\ lg = ErrBody)

IsLive    == ~loading /\ ~showHistory /\ previewData = NoData
IsReview  == ~loading /\ ~showHistory /\ previewData # NoData
IsHistory == showHistory

\* useEffect(..., [showHistory, previewData]): runs when a dependency changed.
EffectStartsCamera(sh, pd) ==
  (sh # showHistory \/ pd # previewData) /\ ~sh /\ pd = NoData

\* ------------------------------------------------------------------- Init
\* The state after the first render and its effect: the mount effect has
\* called initializeCamera once (lines 34-48).
Init ==
  /\ loading = FALSE
  /\ previewData = NoData
  /\ capturedBlob = NoBlob
  /\ showHistory = FALSE
  /\ logs = 0
  /\ selectedModel = "688-1"
  /\ net = EmptyBag
  /\ toBlobQ = EmptyBag
  /\ timers = 0
  /\ apiSupported \in BOOLEAN
  /\ gum = IF apiSupported THEN 1 ELSE 0
  /\ stream = FALSE
  /\ previewModel = NoModel
  /\ alert = IF apiSupported THEN NoAlert ELSE "Camera API not supported."
  /\ ops = 0
  /\ last = "mount"

\* ---------------------------------------------------------------- helpers
\* The render that follows a task that left showHistory = sh, previewData = pd
\* and logs = lg, and showed handlerAlert: the effect of lines 34-38 calls
\* initializeCamera (lines 40-48) when a dependency changed and the guard holds.
Render(sh, pd, lg, handlerAlert) ==
  LET eff == EffectStartsCamera(sh, pd) IN
  /\ eff /\ apiSupported => gum < MaxCam
  /\ gum' = IF eff /\ apiSupported THEN gum + 1 ELSE gum
  /\ alert' = IF eff /\ ~apiSupported THEN "Camera API not supported."
              ELSE handlerAlert
  /\ stream' = (stream /\ VideoMounted(sh, pd, lg))

\* A task that changes neither showHistory nor previewData nor logs.
SameView(handlerAlert) ==
  /\ UNCHANGED <<previewData, showHistory, logs>>
  /\ Render(showHistory, previewData, logs, handlerAlert)

\* processImageBlob (lines 50-59), up to the await.  FormData.append with a
\* null blob and a filename throws a TypeError before the fetch and outside
\* the try block: the function ends there, its finally never runs.
PreviewCallsDefaultModel(blob, model) ==
  IF blob = NoBlob THEN EmptyBag ELSE One(Req("preview", blob, "688-1"))

PreviewCalls(blob, model) ==
  IF blob = NoBlob THEN EmptyBag ELSE One(Req("preview", blob, model))

ProcessImageBlob(blob, model) ==
  /\ BagCardinality(net) < MaxPending
  /\ loading' = TRUE
  /\ capturedBlob' = blob
  /\ previewModel' = IF blob = NoBlob THEN NoModel ELSE model
  /\ net' = net (+) PreviewCalls(blob, model)

ResetScannerKeepsBlob == [previewData |-> NoData, capturedBlob |-> capturedBlob]

ResetScannerKeepsPreview == [previewData |-> previewData, capturedBlob |-> NoBlob]

\* resetScanner (lines 100-105): the cells it writes.
ResetScanner == [previewData |-> NoData, capturedBlob |-> NoBlob]

PreviewCatchSilent == [alert |-> NoAlert, previewData |-> previewData]

\* the catch block of processImageBlob (lines 63-65).
PreviewCatch == [alert |-> "Connection Failed.", previewData |-> previewData]

SaveFailureResets(responded) ==
  [alert |-> IF responded THEN "Failed to save." ELSE "Network Error.",
   previewData |-> NoData, capturedBlob |-> NoBlob]

\* confirmSave when the save did not succeed (lines 94-96): responded is FALSE
\* for a network error, TRUE for a response whose status is not a success.
SaveFailure(responded) ==
  [alert |-> IF responded THEN "Failed to save." ELSE "Network Error.",
   previewData |-> previewData, capturedBlob |-> capturedBlob]

\* the catch of initializeCamera (line 47): console.error, no alert.
CameraCatch == NoAlert

\* ------------------------------------------------------- operator actions
\* <select onChange> (lines 200-212)
SelectModel(m) ==
  /\ ScannerControls /\ OperatorInput
  /\ m # selectedModel
  /\ selectedModel' = m
  /\ SameView(NoAlert)
  /\ last' = "SelectModel"
  /\ UNCHANGED <<loading, capturedBlob, net, toBlobQ, timers, apiSupported,
                 previewModel>>

\* captureFrame (lines 70-78).  The frame is drawn synchronously; toBlob calls
\* back in a later task.  A canvas of zero width or height (no stream yet, or
\* no frame yet) yields a null blob.  The callback closes over this render's
\* processImageBlob, hence over this render's selectedModel.
CaptureFrame(b) ==
  /\ ScannerControls /\ OperatorInput
  /\ b \in (IF stream THEN Blobs ELSE {}) \cup {NoBlob}
  /\ BagCardinality(toBlobQ) < MaxPending
  /\ toBlobQ' = toBlobQ (+) One([blob |-> b, model |-> selectedModel])
  /\ SameView(NoAlert)
  /\ last' = "CaptureFrame"
  /\ UNCHANGED <<loading, capturedBlob, selectedModel, net, timers,
                 apiSupported, previewModel>>

\* the toBlob callback of line 77: processImageBlob(blob)
ToBlobCallback(cb) ==
  /\ ~Crashed
  /\ UNCHANGED ops
  /\ cb \in BagToSet(toBlobQ)
  /\ toBlobQ' = toBlobQ (-) One(cb)
  /\ ProcessImageBlob(cb.blob, cb.model)
  /\ SameView(NoAlert)
  /\ last' = IF cb.blob = NoBlob THEN "ToBlobNull" ELSE "ToBlobCallback"
  /\ UNCHANGED <<selectedModel, timers, apiSupported>>

\* handleFileUpload (lines 80-83): the change event of the file input;
\* f = NoBlob is a change event without a file.
HandleFileUpload(f) ==
  /\ ScannerControls /\ OperatorInput
  /\ f \in Blobs \cup {NoBlob}
  /\ IF f = NoBlob
       THEN UNCHANGED <<loading, capturedBlob, previewModel, net>>
       ELSE ProcessImageBlob(f, selectedModel)
  /\ SameView(NoAlert)
  /\ last' = IF f = NoBlob THEN "UploadNoFile" ELSE "HandleFileUpload"
  /\ UNCHANGED <<selectedModel, toBlobQ, timers, apiSupported>>

\* confirmSave (lines 85-93), up to the await
ConfirmSave ==
  /\ ReviewControls /\ OperatorInput
  /\ IF capturedBlob = NoBlob
       THEN /\ UNCHANGED <<loading, net>>
            /\ last' = "ConfirmSaveReturn"
       ELSE /\ BagCardinality(net) < MaxPending
            /\ loading' = TRUE
            /\ net' = net (+) One(Req("save", capturedBlob, selectedModel))
            /\ last' = "ConfirmSave"
  /\ SameView(NoAlert)
  /\ UNCHANGED <<capturedBlob, selectedModel, toBlobQ, timers, apiSupported,
                 previewModel>>

\* the Retry button: resetScanner (lines 100-105)
Retry ==
  /\ ReviewControls /\ OperatorInput
  /\ timers < MaxCam
  /\ previewData' = ResetScanner.previewData
  /\ capturedBlob' = ResetScanner.capturedBlob
  /\ previewModel' = NoModel
  /\ timers' = timers + 1
  /\ Render(showHistory, ResetScanner.previewData, logs, NoAlert)
  /\ last' = "Retry"
  /\ UNCHANGED <<loading, showHistory, logs, selectedModel, net, toBlobQ,
                 apiSupported>>

\* toggleViewMode (lines 118-125) with fetchHistoryLogs up to its await
\* (lines 107-110)
ToggleViewMode ==
  /\ OperatorInput /\ ~Crashed
  /\ IF showHistory
       THEN /\ timers < MaxCam
            /\ showHistory' = FALSE
            /\ timers' = timers + 1
            /\ Render(FALSE, previewData, logs, NoAlert)
            /\ last' = "ToggleBack"
            /\ UNCHANGED <<loading, net>>
       ELSE /\ BagCardinality(net) < MaxPending
            /\ loading' = TRUE
            /\ net' = net (+) One(Req("logs", NoBlob, NoModel))
            /\ Render(showHistory, previewData, logs, NoAlert)
            /\ last' = "FetchHistoryLogs"
            /\ UNCHANGED <<showHistory, timers>>
  /\ UNCHANGED <<previewData, capturedBlob, logs, selectedModel, toBlobQ,
                 apiSupported, previewModel>>

\* the Download Report button (line 233): window.open, no state is written
DownloadReport ==
  /\ showHistory /\ OperatorInput /\ ~Crashed
  /\ SameView(NoAlert)
  /\ last' = "DownloadReport"
  /\ UNCHANGED <<loading, capturedBlob, selectedModel, net, toBlobQ, timers,
                 apiSupported, previewModel>>

\* ------------------------------------------------- fetch continuations
\* processImageBlob after the await (lines 59-67): res.ok and a JSON body
PreviewOk(r, v) ==
  /\ ~Crashed
  /\ UNCHANGED ops
  /\ r \in BagToSet(net) /\ r.kind = "preview"
  /\ net' = net (-) One(r)
  /\ previewData' = [image |-> r.blob, status |-> v]
  /\ loading' = FALSE
  /\ Render(showHistory, [image |-> r.blob, status |-> v], logs, NoAlert)
  /\ last' = "PreviewOk"
  /\ UNCHANGED <<capturedBlob, showHistory, logs, selectedModel, toBlobQ,
                 timers, apiSupported, previewModel>>

\* processImageBlob after the await: fetch rejected, !res.ok, or a body that
\* is not JSON (lines 60-67)
PreviewFail(r) ==
  /\ ~Crashed
  /\ UNCHANGED ops
  /\ r \in BagToSet(net) /\ r.kind = "preview"
  /\ net' = net (-) One(r)
  /\ previewData' = PreviewCatch.previewData
  /\ loading' = FALSE
  /\ Render(showHistory, PreviewCatch.previewData, logs, PreviewCatch.alert)
  /\ last' = "PreviewFail"
  /\ UNCHANGED <<capturedBlob, showHistory, logs, selectedModel, toBlobQ,
                 timers, apiSupported, previewModel>>

\* confirmSave after the await, res.ok: resetScanner, then finally
\* (lines 93-105)
SaveOk(r) ==
  /\ ~Crashed
  /\ UNCHANGED ops
  /\ r \in BagToSet(net) /\ r.kind = "save"
  /\ timers < MaxCam
  /\ net' = net (-) One(r)
  /\ previewData' = ResetScanner.previewData
  /\ capturedBlob' = ResetScanner.capturedBlob
  /\ previewModel' = NoModel
  /\ timers' = timers + 1
  /\ loading' = FALSE
  /\ Render(showHistory, ResetScanner.previewData, logs, NoAlert)
  /\ last' = "SaveOk"
  /\ UNCHANGED <<showHistory, logs, selectedModel, toBlobQ, apiSupported>>

\* confirmSave after the await, the save did not succeed (lines 94-97)
SaveFail(r, responded) ==
  /\ ~Crashed
  /\ UNCHANGED ops
  /\ r \in BagToSet(net) /\ r.kind = "save"
  /\ net' = net (-) One(r)
  /\ previewData' = SaveFailure(responded).previewData
  /\ capturedBlob' = SaveFailure(responded).capturedBlob
  /\ previewModel' = IF SaveFailure(responded).capturedBlob = capturedBlob
                       THEN previewModel ELSE NoModel
  /\ loading' = FALSE
  /\ Render(showHistory, SaveFailure(responded).previewData, logs,
            SaveFailure(responded).alert)
  /\ last' = "SaveFail"
  /\ UNCHANGED <<showHistory, logs, selectedModel, toBlobQ, timers,
                 apiSupported>>

\* fetchHistoryLogs after the await (lines 110-115).  res.ok is not tested:
\* any response with a JSON body is stored and shown.  n <= MaxRecords is the
\* list a successful response carries, ErrBody the JSON body of an error
\* response.
LogsBody(r, n) ==
  /\ ~Crashed
  /\ UNCHANGED ops
  /\ r \in BagToSet(net) /\ r.kind = "logs"
  /\ net' = net (-) One(r)
  /\ logs' = n
  /\ showHistory' = TRUE
  /\ loading' = FALSE
  /\ Render(TRUE, previewData, n, NoAlert)
  /\ last' = IF n = ErrBody THEN "LogsErrorBody" ELSE "LogsOk"
  /\ UNCHANGED <<previewData, capturedBlob, selectedModel, toBlobQ, timers,
                 apiSupported, previewModel>>

\* fetchHistoryLogs after the await: fetch rejected or the body is not JSON
\* (lines 114-115)
LogsFail(r) ==
  /\ ~Crashed
  /\ UNCHANGED ops
  /\ r \in BagToSet(net) /\ r.kind = "logs"
  /\ net' = net (-) One(r)
  /\ loading' = FALSE
  /\ SameView("Failed to load logs.")
  /\ last' = "LogsFail"
  /\ UNCHANGED <<capturedBlob, selectedModel, toBlobQ, timers, apiSupported,
                 previewModel>>

\* ------------------------------------------------------------- camera
\* the setTimeout(initializeCamera, 100) callback (lines 104, 121) running
\* initializeCamera up to its await (lines 40-45)
TimerFires ==
  /\ ~Crashed
  /\ UNCHANGED ops
  /\ timers > 0
  /\ timers' = timers - 1
  /\ apiSupported => gum < MaxCam
  /\ gum' = IF apiSupported THEN gum + 1 ELSE gum
  /\ alert' = IF apiSupported THEN NoAlert ELSE "Camera API not supported."
  /\ last' = "TimerFires"
  /\ UNCHANGED <<loading, previewData, capturedBlob, showHistory, logs,
                 selectedModel, net, toBlobQ, stream, apiSupported,
                 previewModel>>

\* getUserMedia resolves (lines 45-46): the stream is bound if a <video> is
\* mounted
CameraGranted ==
  /\ ~Crashed
  /\ UNCHANGED ops
  /\ gum > 0
  /\ gum' = gum - 1
  /\ stream' = (stream \/ VideoMounted(showHistory, previewData, logs))
  /\ alert' = NoAlert
  /\ last' = "CameraGranted"
  /\ UNCHANGED <<loading, previewData, capturedBlob, showHistory, logs,
                 selectedModel, net, toBlobQ, timers, apiSupported,
                 previewModel>>

\* getUserMedia rejects (line 47)
CameraDenied ==
  /\ ~Crashed
  /\ UNCHANGED ops
  /\ gum > 0
  /\ gum' = gum - 1
  /\ alert' = CameraCatch
  /\ last' = "CameraDenied"
  /\ UNCHANGED <<loading, previewData, capturedBlob, showHistory, logs,
                 selectedModel, net, toBlobQ, timers, stream, apiSupported,
                 previewModel>>

\* ------------------------------------------------------------------ Next
Next ==
  \/ \E m \in Models : SelectModel(m)
  \/ \E b \in Blobs \cup {NoBlob} : CaptureFrame(b)
  \/ \E cb \in BagToSet(toBlobQ) : ToBlobCallback(cb)
  \/ \E f \in Blobs \cup {NoBlob} : HandleFileUpload(f)
  \/ ConfirmSave
  \/ Retry
  \/ ToggleViewMode
  \/ DownloadReport
  \/ \E r \in BagToSet(net) : \E v \in Verdicts : PreviewOk(r, v)
  \/ \E r \in BagToSet(net) : PreviewFail(r)
  \/ \E r \in BagToSet(net) : SaveOk(r)
  \/ \E r \in BagToSet(net) : \E responded \in BOOLEAN : SaveFail(r, responded)
  \/ \E r \in BagToSet(net) : \E n \in 0..ErrBody : LogsBody(r, n)
  \/ \E r \in BagToSet(net) : LogsFail(r)
  \/ TimerFires
  \/ CameraGranted
  \/ CameraDenied

Spec == Init /\ [][Next]_vars

TypeOK ==
  /\ loading \in BOOLEAN /\ showHistory \in BOOLEAN /\ stream \in BOOLEAN
  /\ capturedBlob \in Blobs \cup {NoBlob}
  /\ previewData \in {NoData} \cup [image : Blobs, status : Verdicts]
  /\ logs \in 0..ErrBody
  /\ selectedModel \in Models
  /\ timers \in 0..MaxCam /\ gum \in 0..MaxCam
  /\ BagCardinality(net) <= MaxPending
  /\ BagCardinality(toBlobQ) <= MaxPending

\* ---------------------------------------------------------------- claims
\* the calls of one kind in a bag of outstanding calls
Calls(bag, kind) ==
  LET S == {r \in BagToSet(bag) : r.kind = kind} IN
  BagCardinality([r \in S |-> bag[r]])

Outstanding == BagCardinality(net)

\* C1: in every reachable state at most one network call (preview, save or
\* logs) is outstanding.
C1_AtMostOneCall == Outstanding <= 1

\* C2: whenever Confirm is pressed in REVIEW exactly one save call is issued,
\* and it carries the image whose preview produced the Preview Result shown.
C2_ConfirmSavesPreviewedImage ==
  [][ (IsReview /\ last' \in {"ConfirmSave", "ConfirmSaveReturn"})
        => \E m \in Models :
             net' = net (+) One(Req("save", previewData.image, m)) ]_vars

\* C3: the model identifier sent in the save request of an image equals the
\* model identifier sent in the preview request of that image.
C3_SaveCarriesPreviewModel ==
  last = "ConfirmSave" => Req("save", capturedBlob, previewModel) \in BagToSet(net)

\* C6: while the HISTORY view is shown no preview call and no save call is
\* issued.
C6_HistoryIssuesNoCall ==
  [][ showHistory => /\ Calls(net', "preview") <= Calls(net, "preview")
                     /\ Calls(net', "save") <= Calls(net, "save") ]_vars

\* C8: when a preview call fails the Captured Image Buffer is discarded:
\* after the failure is handled capturedBlob is null.
C8_PreviewFailureDiscardsBuffer ==
  last = "PreviewFail" => capturedBlob = NoBlob

\* C10: when getUserMedia rejects, a blocking error notification is shown.
C10_DenialIsNotified ==
  last = "CameraDenied" => alert # NoAlert

C5_RetryClearsAndResumes ==
  [][ /\ IsReview /\ last' = "Retry"
        => /\ previewData' = NoData /\ ~showHistory' /\ ~loading'
           /\ capturedBlob' = NoBlob
           /\ timers' = timers + 1
           /\ IF apiSupported THEN gum' = gum + 1
                              ELSE alert' = "Camera API not supported."
      /\ Calls(net', "save") > Calls(net, "save")
        => /\ capturedBlob # NoBlob
           /\ \E m \in Models : net' = net (+) One(Req("save", capturedBlob, m))
      /\ capturedBlob = NoBlob /\ capturedBlob' # NoBlob
        => last' \in {"ToBlobCallback", "HandleFileUpload"}
      /\ last' = "ConfirmSaveReturn" => capturedBlob = NoBlob /\ net' = net ]_vars

\* Retry has just been pressed: the buffer and the result are gone and the
\* camera has been asked for again
C5_Witness ==
  /\ last = "Retry"
  /\ previewData = NoData /\ capturedBlob = NoBlob /\ ~showHistory
  /\ timers > 0 /\ gum > 0

C11_LogsFailureRollsBack ==
  [][ last' \in {"LogsFail", "LogsErrorBody"}
        => /\ alert' = "Failed to load logs."
           /\ showHistory' = showHistory
           /\ logs' = logs ]_vars

\* C12: toggling back from HISTORY always leads to LIVE (previewData null,
\* the live video shown), whether HISTORY was entered from LIVE or from REVIEW.
C12_ToggleBackLeadsToLive ==
  last = "ToggleBack" => ~showHistory /\ previewData = NoData

\* C13: a getUserMedia request is never started while a Preview Result is
\* held or while the HISTORY view is shown.
C13_NoCameraRequestOutsideLive ==
  [][ gum' > gum => ~showHistory' /\ previewData' = NoData ]_vars

C15_PreviewImpliesBuffer ==
  previewData # NoData => capturedBlob # NoBlob

\* C16: in every reachable state in which a preview, save or logs call is
\* still in flight, loading is true.
C16_LoadingCoversEveryCall ==
  Outstanding > 0 => loading

\* C17: in every reachable state in which loading is true, some network call
\* is in flight.
C17_LoadingNeverStuck ==
  loading => Outstanding > 0

====
